---- MODULE Spec2Model ----
(***************************************************************************)
(* metafmt: a front-end that resolves a formatter (a chain of external     *)
(* commands) from a file extension or an Emacs major mode and pipes the    *)
(* content through the chain, to standard output or back into the file.    *)
(*                                                                         *)
(* Strings that the program inspects character by character (paths,        *)
(* extensions, directory names) are sequences of one-character strings.    *)
(* File contents are sequences of bytes; byte 0 only appears as the        *)
(* filling of a hole left by a write past the end of a file.               *)
(***************************************************************************)
EXTENDS Integers, Sequences, FiniteSets, TLC

VARIABLES
    build,              \* which main() runs: "metafmt.go" or "part_001"
    args,               \* flag.Args()
    write,              \* *write
    emacs,              \* *emacs
    stdin,              \* the bytes on os.Stdin
    unreadable,         \* directories whose listing fails
    orig,               \* content of every file when the process starts
    formatters,         \* the static formatter list
    extToFormatter,     \* lookup map: extension -> index into formatters
    emacsToFormatter,   \* lookup map: major mode -> index into formatters
    pc,                 \* position of the single thread of control
    op,                 \* selected operation: "write", "stdout", "stdin"
    idx,                \* index of the next element of the ranged-over args
    walk,               \* filepath.Walk: paths still to visit, in order
    walking,            \* inside formatDir
    cur,                \* path handed to formatFile
    fmtr,               \* resolved formatter (index) or nil
    query,              \* the last resolution request
    commandChain,       \* formatChain: commandChain
    stage,              \* formatChain: loop index i (1-based)
    buf,                \* formatChain: buf
    tmp,                \* formatChain: tmp
    wbuf,               \* formatWrite: buf
    pos,                \* offset of the open file
    disk,               \* content of every file
    stdout,             \* bytes written to os.Stdout
    exitCode,           \* process exit status
    errMsg,             \* the error handed to log.Fatalln
    dispatched,         \* history: arguments dispatched by main, in order
    opened,             \* history: paths an operation was invoked on
    spawned,            \* history: exec invocations of the current operation
    nspawn,             \* history: number of exec invocations of the run
    stdinRead,          \* history: os.Stdin was handed to a process
    fileA,              \* history: content of cur when it was opened
    out0,               \* history: stdout when the current operation started
    chainRet,           \* history: "none", "ok" or "err" of the chain of the operation
    active,             \* history: formatWrite has opened cur and not returned
    ret                 \* history: last successful return of formatWrite

vars == << build, args, write, emacs, stdin, unreadable, orig, formatters,
           extToFormatter, emacsToFormatter, pc, op, idx, walk, walking, cur,
           fmtr, query, commandChain, stage, buf, tmp, wbuf, pos, disk, stdout,
           exitCode,
           errMsg, dispatched, opened, spawned, nspawn, stdinRead, fileA,
           out0, chainRet, active, ret >>

----------------------------------------------------------------------------
(* Bounds of the model *)

\* longest initial file content / standard input
MaxLen == 2
\* most command-line arguments
MaxArgs == 2
\* most formatters in a list drawn for the registry specification
MaxFormatters == 2
\* longest path drawn for the registry specification
MaxPathLen == 3

----------------------------------------------------------------------------
(* Generic helpers *)

nil == 0

Range(s) == { s[i] : i \in 1..Len(s) }

IsPrefix(s, t) == Len(s) <= Len(t) /\ SubSeq(t, 1, Len(s)) = s

SeqsUpTo(S, n) == UNION { [1..k -> S] : k \in 0..n }

RECURSIVE Reverse(_)
Reverse(s) == IF s = <<>> THEN <<>> ELSE Append(Reverse(Tail(s)), Head(s))

----------------------------------------------------------------------------
(* The static formatter list *)

StaticFormatters ==
    << \* C/C++
       [ Commands        |-> << <<"clang-format", "-style=WebKit", "-">> >>,
         EmacsMajorModes |-> << "c-mode", "c++-mode" >>,
         Extensions      |-> << <<".","c">>, <<".","c","p","p">>,
                                <<".","c","x","x">>, <<".","h">>,
                                <<".","h","p","p">>, <<".","h","x","x">> >> ],
       \* CSS
       [ Commands        |-> << <<"cssbeautify-bin", "--autosemicolon", "-f", "-">> >>,
         EmacsMajorModes |-> << "css-mode" >>,
         Extensions      |-> << <<".","c","s","s">> >> ],
       \* Go
       [ Commands        |-> << <<"goimports">> >>,
         EmacsMajorModes |-> << "go-mode" >>,
         Extensions      |-> << <<".","g","o">> >> ],
       \* JavaScript
       [ Commands        |-> << <<"semistandard-format", "-">> >>,
         EmacsMajorModes |-> << "js-mode", "js2-mode", "js3-mode" >>,
         Extensions      |-> << <<".","j","s">>, <<".","j","s","x">> >> ],
       \* JSON
       [ Commands        |-> << <<"jsonlint", "-">> >>,
         EmacsMajorModes |-> << "json-mode" >>,
         Extensions      |-> << <<".","j","s","o","n">> >> ],
       \* Python
       [ Commands        |-> << <<"autopep8", "--max-line-length=98", "-">>,
                                <<"isort", "--line-width", "98", "--multi_line", "3", "-">> >>,
         EmacsMajorModes |-> << "python-mode" >>,
         Extensions      |-> << <<".","p","y">> >> ],
       \* SASS
       [ Commands        |-> << <<"sass-convert", "--no-cache", "--from", "sass",
                                  "--to", "sass", "--indent", "4", "--stdin">> >>,
         EmacsMajorModes |-> << "sass-mode" >>,
         Extensions      |-> << <<".","s","a","s","s">> >> ],
       \* SCSS
       [ Commands        |-> << <<"sass-convert", "--no-cache", "--from", "scss",
                                  "--to", "scss", "--indent", "4", "--stdin">> >>,
         EmacsMajorModes |-> << "scss-mode" >>,
         Extensions      |-> << <<".","s","c","s","s">> >> ] >>

----------------------------------------------------------------------------
(* Lookup maps *)

EmptyMap == << >>

\* m[k] = v keeping an existing entry: a registration that does not overwrite
MapSetFirstWins(m, k, v) ==
    [ x \in (DOMAIN m) \cup {k} |-> IF x \in DOMAIN m THEN m[x] ELSE v ]

\* m[k] = v
MapSet(m, k, v) ==
    [ x \in (DOMAIN m) \cup {k} |-> IF x = k THEN v ELSE m[x] ]

\* for _, key := range keys { m[key] = v }
RECURSIVE InsertAll(_, _, _, _)
InsertAll(m, keys, k, v) ==
    IF k > Len(keys) THEN m
    ELSE InsertAll(MapSet(m, keys[k], v), keys, k + 1, v)

\* the body of init(): one pass over the formatter list, from index i on
RECURSIVE initFrom(_, _, _)
initFrom(list, i, maps) ==
    IF i > Len(list) THEN maps
    ELSE initFrom(list, i + 1,
                  [ ext   |-> InsertAll(maps.ext, list[i].Extensions, 1, i),
                    emacs |-> InsertAll(maps.emacs, list[i].EmacsMajorModes, 1, i) ])

init(list) == initFrom(list, 1, [ ext |-> EmptyMap, emacs |-> EmptyMap ])

\* os.IsPathSeparator
IsPathSeparator(c) == c = "/"

\* filepath.Ext: scan back from the end, stop at a separator, cut at a dot
RECURSIVE ExtFrom(_, _)
ExtFrom(path, i) ==
    IF i < 1 \/ IsPathSeparator(path[i]) THEN <<>>
    ELSE IF path[i] = "." THEN SubSeq(path, i, Len(path))
    ELSE ExtFrom(path, i - 1)

Ext(path) == ExtFrom(path, Len(path))

\* a resolution that falls back to the first formatter instead of nil
formatterForEmacsDefault(m, mode) ==
    IF mode \in DOMAIN m THEN m[mode] ELSE 1

formatterForEmacs(m, mode) ==
    IF mode = "" THEN nil
    ELSE IF mode \notin DOMAIN m THEN nil
    ELSE m[mode]

\* a resolution that falls back to the first formatter instead of nil
formatterForPathDefault(m, path) ==
    IF Ext(path) \in DOMAIN m THEN m[Ext(path)] ELSE 1

formatterForPath(m, path) ==
    IF Ext(path) = <<>> THEN nil
    ELSE IF Ext(path) \notin DOMAIN m THEN nil
    ELSE m[Ext(path)]

----------------------------------------------------------------------------
(* The file system the process runs in *)

A_GO    == << "a", ".", "g", "o" >>
C_XYZ   == << "c", ".", "x", "y", "z" >>
DASH    == << "-" >>
D       == << "d" >>
D_GIT   == << "d", "/", ".", "g", "i", "t" >>
D_GIT_F == << "d", "/", ".", "g", "i", "t", "/", "f", ".", "g", "o" >>
D_E_GO  == << "d", "/", "e", ".", "g", "o" >>
D_G_PY  == << "d", "/", "g", ".", "p", "y" >>
D_N     == << "d", "/", "n" >>

Files == { A_GO, C_XYZ, D_GIT_F, D_E_GO, D_G_PY, D_N }
Dirs  == { D, D_GIT }

\* dry.FileIsDir / info.IsDir()
FileIsDir(path) == path \in Dirs

\* the sorted listing filepath.Walk reads from a directory
ReadDir(path) ==
    IF path = D THEN << D_GIT, D_E_GO, D_G_PY, D_N >>
    ELSE IF path = D_GIT THEN << D_GIT_F >>
    ELSE << >>

\* info.Name(): the last element of the path
RECURSIVE BaseFrom(_, _)
BaseFrom(path, i) ==
    IF i < 1 \/ IsPathSeparator(path[i]) THEN SubSeq(path, i + 1, Len(path))
    ELSE BaseFrom(path, i - 1)

Name(path) == BaseFrom(path, Len(path))

IgnoreDirs == { << ".", "g", "i", "t" >>, << ".", "h", "g" >>, << ".", "s", "v", "n" >>,
                << "n", "o", "d", "e", "_", "m", "o", "d", "u", "l", "e", "s" >> }

\* the walk callback on a directory: does filepath.Walk descend into it?
Descend(path, unread) == Name(path) \notin IgnoreDirs /\ path \notin unread

----------------------------------------------------------------------------
(* External formatter programs: stand-ins, one transformation per program *)

SwapByte(b) == IF b = 1 THEN 2 ELSE IF b = 2 THEN 1 ELSE b

Exec(command, input) ==
    CASE command[1] = "goimports"           -> IF input = <<>> THEN <<>> ELSE Tail(input)
      [] command[1] = "autopep8"            -> Append(input, 1)
      [] command[1] = "isort"               -> Reverse(input)
      [] command[1] = "clang-format"        -> Append(input, 2)
      [] command[1] = "cssbeautify-bin"     -> Reverse(input)
      [] command[1] = "semistandard-format" -> << 1 >> \o input
      [] command[1] = "jsonlint"            -> [ i \in 1..Len(input) |-> SwapByte(input[i]) ]
      [] command[1] = "sass-convert"        -> IF command[4] = "sass" THEN << 2 >> \o input
                                               ELSE input \o input
      [] OTHER                              -> input

----------------------------------------------------------------------------
(* Files *)

\* a file that is not cut: Truncate without effect
TruncateNot(content, size) == content

\* file.Truncate(size), size within the file
Truncate(content, size) == SubSeq(content, 1, size)

\* a write of data at offset off: overwrites, extends, fills a hole with 0
WriteAt(content, off, data) ==
    LET n == IF Len(content) > off + Len(data) THEN Len(content) ELSE off + Len(data)
    IN  [ k \in 1..n |->
            IF k > off /\ k <= off + Len(data) THEN data[k - off]
            ELSE IF k <= Len(content) THEN content[k]
            ELSE 0 ]

----------------------------------------------------------------------------
(* Control flow decided by the code *)

\* main of part_001: for _, path := range args[1:]
RangeArgsPart001(a) == IF a = <<>> THEN <<>> ELSE Tail(a)

\* main of metafmt.go: for _, path := range args
RangeArgsMetafmt(a) == a

RangeArgs(b, a) == IF b = "part_001" THEN RangeArgsPart001(a) ELSE RangeArgsMetafmt(a)

\* main of metafmt.go sends directories to formatDir; part_001 has no formatDir
IsDirDispatch(b, path) == b = "metafmt.go" /\ FileIsDir(path)

\* an error that is logged and survived
AfterOpNoExit(failed, inWalk) == IF inWalk THEN "walk" ELSE "loop"

\* formatFile / the loop of main after op returns: log.Fatalln on an error
AfterOp(failed, inWalk) ==
    IF failed THEN "exit1" ELSE IF inWalk THEN "walk" ELSE "loop"

\* a chain that does not look at the error of format
AfterFormatIgnoreErr(i, n, ok) == IF i < n THEN "stage" ELSE "copy"

\* formatChain after format(&buf, stepSrc, command) of stage i of n
AfterFormat(i, n, ok) ==
    IF ~ok THEN "return_err" ELSE IF i < n THEN "stage" ELSE "copy"

\* every stage reads the original source
StepSrcOriginal(i, src, t) == src

\* formatChain: stepSrc of stage i
StepSrc(i, src, t) == IF i = 1 THEN src ELSE t

Err(kind, st) == [ kind |-> kind, stage |-> st ]

NoErr == Err("none", 0)

NoRet == [ path |-> <<>>, A |-> <<>>, B |-> <<>> ]

----------------------------------------------------------------------------
(* Initial states: the process after flag.Parse() and init() *)

Bytes == { 1, 2 }

Contents == SeqsUpTo(Bytes, MaxLen)

ArgVals == { A_GO, C_XYZ, D, DASH }

Modes == { "", "bogus-mode", "go-mode", "python-mode" }

\* everything but the inputs and the registry
InitRun ==
    /\ op = "none"
    /\ idx = 1
    /\ walk = <<>>
    /\ walking = FALSE
    /\ cur = <<>>
    /\ fmtr = nil
    /\ query = [ kind |-> "none", key |-> <<>> ]
    /\ commandChain = <<>>
    /\ stage = 1
    /\ buf = <<>>
    /\ tmp = <<>>
    /\ wbuf = <<>>
    /\ pos = 0
    /\ disk = orig
    /\ stdout = <<>>
    /\ exitCode = 0
    /\ errMsg = NoErr
    /\ dispatched = <<>>
    /\ opened = <<>>
    /\ spawned = <<>>
    /\ nspawn = 0
    /\ stdinRead = FALSE
    /\ fileA = <<>>
    /\ out0 = <<>>
    /\ chainRet = "none"
    /\ active = FALSE
    /\ ret = NoRet

\* -emacs is read only when the arguments are the single "-", and a listing
\* can only fail where a directory is walked
Init ==
    /\ build \in { "metafmt.go", "part_001" }
    /\ args \in SeqsUpTo(ArgVals, MaxArgs)
    /\ write \in BOOLEAN
    /\ emacs \in Modes
    /\ (args # << DASH >> => emacs = "")
    /\ unreadable \in SUBSET { D }
    /\ (unreadable # {} => build = "metafmt.go" /\ D \in Range(args))
    /\ \E a \in Contents : orig = [ f \in Files |-> a ] /\ stdin = a
    /\ formatters = StaticFormatters
    /\ extToFormatter = init(StaticFormatters).ext
    /\ emacsToFormatter = init(StaticFormatters).emacs
    /\ pc = "main"
    /\ InitRun

----------------------------------------------------------------------------
(* Actions *)

inputs == << build, args, write, emacs, stdin, unreadable, orig >>

registry == << formatters, extToFormatter, emacsToFormatter >>

chainVars == << commandChain, stage, buf, tmp, spawned, nspawn, stdinRead, out0, chainRet >>

\* formatChain entered: var buf, tmp bytes.Buffer
StartChain(chain) ==
    /\ commandChain' = chain
    /\ stage' = 1
    /\ buf' = <<>>
    /\ tmp' = <<>>
    /\ spawned' = <<>>
    /\ out0' = stdout
    /\ chainRet' = "none"

\* where an error of the current operation takes the process
FailTo == IF op = "stdin" THEN "exit1" ELSE AfterOp(TRUE, walking)

Fail(e) ==
    /\ errMsg' = e
    /\ pc' = FailTo
    /\ exitCode' = IF FailTo = "exit1" THEN 1 ELSE exitCode
    /\ active' = (active /\ FailTo = "exit1")

\* main up to the loop over the arguments
Main ==
    /\ pc = "main"
    /\ IF Len(args) < 1
       THEN pc' = "exit0" /\ op' = op
       ELSE IF Len(args) = 1 /\ args[1] = DASH
       THEN pc' = "stdin" /\ op' = "stdin"
       ELSE pc' = "loop" /\ op' = IF write THEN "write" ELSE "stdout"
    /\ UNCHANGED << inputs, registry, idx, walk, walking, cur, fmtr, query, chainVars,
                    wbuf, pos, disk, stdout, exitCode, errMsg, dispatched, opened,
                    fileA, active, ret >>

\* formatStdin up to the call of formatChain
FormatStdin ==
    /\ pc = "stdin"
    /\ fmtr' = formatterForEmacs(emacsToFormatter, emacs)
    /\ query' = [ kind |-> "mode", key |-> emacs ]
    /\ IF formatterForEmacs(emacsToFormatter, emacs) = nil
       THEN /\ pc' = "exit1"
            /\ exitCode' = 1
            /\ errMsg' = Err("mode", 0)
            /\ UNCHANGED << commandChain, stage, buf, tmp, spawned, out0, chainRet >>
       ELSE /\ pc' = "stage"
            /\ StartChain(formatters[formatterForEmacs(emacsToFormatter, emacs)].Commands)
            /\ UNCHANGED << exitCode, errMsg >>
    /\ UNCHANGED << inputs, registry, op, idx, walk, walking, cur, nspawn, stdinRead,
                    wbuf, pos, disk, stdout, dispatched, opened, fileA, active, ret >>

\* formatFile(path, op) up to the call of op
FormatFile(path) ==
    /\ cur' = path
    /\ query' = [ kind |-> "path", key |-> path ]
    /\ fmtr' = formatterForPath(extToFormatter, path)
    /\ pc' = IF formatterForPath(extToFormatter, path) = nil
             THEN AfterOp(FALSE, walking)
             ELSE "open"

\* one iteration of the loop of main
LoopNext ==
    /\ pc = "loop"
    /\ IF idx > Len(RangeArgs(build, args))
       THEN /\ pc' = "exit0"
            /\ UNCHANGED << idx, walk, walking, cur, fmtr, query, dispatched >>
       ELSE /\ idx' = idx + 1
            /\ IF IsDirDispatch(build, RangeArgs(build, args)[idx])
               THEN /\ dispatched' = Append(dispatched,
                                            [ path |-> RangeArgs(build, args)[idx],
                                              kind |-> "dir" ])
                    /\ walk' = << RangeArgs(build, args)[idx] >>
                    /\ walking' = TRUE
                    /\ pc' = "walk"
                    /\ UNCHANGED << cur, fmtr, query >>
               ELSE /\ dispatched' = Append(dispatched,
                                            [ path |-> RangeArgs(build, args)[idx],
                                              kind |-> "file" ])
                    /\ FormatFile(RangeArgs(build, args)[idx])
                    /\ UNCHANGED << walk, walking >>
    /\ UNCHANGED << inputs, registry, op, chainVars, wbuf, pos, disk, stdout, exitCode,
                    errMsg, opened, fileA, active, ret >>

\* formatDir: one call of the walk callback, or the return of filepath.Walk
WalkStep ==
    /\ pc = "walk"
    /\ IF walk = <<>>
       THEN /\ pc' = "loop"
            /\ walking' = FALSE
            /\ UNCHANGED << walk, cur, fmtr, query >>
       ELSE IF FileIsDir(Head(walk))
       THEN /\ walk' = (IF Descend(Head(walk), unreadable)
                        THEN ReadDir(Head(walk)) ELSE <<>>) \o Tail(walk)
            /\ UNCHANGED << pc, walking, cur, fmtr, query >>
       ELSE /\ walk' = Tail(walk)
            /\ FormatFile(Head(walk))
            /\ UNCHANGED walking
    /\ UNCHANGED << inputs, registry, op, idx, chainVars, wbuf, pos, disk, stdout,
                    exitCode, errMsg, dispatched, opened, fileA, active, ret >>

\* formatWrite / formatStdout: os.OpenFile / os.Open, then formatChain is entered
Open ==
    /\ pc = "open"
    /\ opened' = Append(opened, cur)
    /\ \E ok \in BOOLEAN :
         IF ok
         THEN /\ pc' = "stage"
              /\ StartChain(formatters[fmtr].Commands)
              /\ fileA' = disk[cur]
              /\ pos' = 0
              /\ wbuf' = <<>>
              /\ active' = (op = "write")
              /\ UNCHANGED << exitCode, errMsg >>
         ELSE /\ Fail(Err("open", 0))
              /\ UNCHANGED << commandChain, stage, buf, tmp, spawned, out0, chainRet, fileA,
                              pos, wbuf >>
    /\ UNCHANGED << inputs, registry, op, idx, walk, walking, cur, fmtr, query, nspawn,
                    stdinRead, disk, stdout, dispatched, ret >>

\* the bytes behind src of the current chain
SrcData == IF op = "stdin" THEN stdin ELSE SubSeq(disk[cur], pos + 1, Len(disk[cur]))

\* formatChain: one iteration of the loop over commandChain.  A program that
\* cannot be started writes nothing; one that exits non-zero may have written
\* any part of its output
Stage ==
    /\ pc = "stage"
    /\ LET chain == commandChain
           tmp1  == IF stage = 1 THEN tmp ELSE buf
           buf1  == IF stage = 1 THEN buf ELSE <<>>
           in    == StepSrc(stage, SrcData, tmp1)
           out   == Exec(chain[stage], in)
       IN  \E outcome \in { "ok", "notfound", "exit" } :
           \E n \in 0..Len(out) :
             /\ outcome = "ok" => n = Len(out)
             /\ outcome = "notfound" => n = 0
             /\ buf' = buf1 \o SubSeq(out, 1, n)
             /\ tmp' = IF stage = 1 \/ outcome = "notfound" THEN tmp1 ELSE <<>>
             /\ pos' = IF stage = 1 /\ op # "stdin" /\ outcome # "notfound"
                       THEN Len(disk[cur]) ELSE pos
             /\ stdinRead' = (stdinRead \/ (stage = 1 /\ op = "stdin" /\ outcome # "notfound"))
             /\ spawned' = Append(spawned, [ cmd |-> chain[stage], input |-> in,
                                             outcome |-> outcome ])
             /\ nspawn' = nspawn + 1
             /\ IF AfterFormat(stage, Len(chain), outcome = "ok") = "return_err"
                THEN /\ chainRet' = "err"
                     /\ Fail(Err(outcome, stage))
                     /\ UNCHANGED stage
                ELSE /\ pc' = AfterFormat(stage, Len(chain), outcome = "ok")
                     /\ stage' = IF AfterFormat(stage, Len(chain), outcome = "ok") = "stage"
                                 THEN stage + 1 ELSE stage
                     /\ UNCHANGED << chainRet, exitCode, errMsg, active >>
    /\ UNCHANGED << inputs, registry, op, idx, walk, walking, cur, fmtr, query,
                    commandChain, out0, wbuf, disk, stdout, dispatched, opened, fileA,
                    ret >>

\* formatChain: io.Copy(dst, &buf) and the return to the caller.  A write to
\* os.Stdout can fail short; a write to the buffer of formatWrite cannot
ChainCopy ==
    /\ pc = "copy"
    /\ IF op = "write"
       THEN /\ wbuf' = wbuf \o buf
            /\ buf' = <<>>
            /\ chainRet' = "ok"
            /\ pc' = "truncate"
            /\ UNCHANGED << stdout, exitCode, errMsg, active >>
       ELSE \E n \in 0..Len(buf) :
              /\ stdout' = stdout \o SubSeq(buf, 1, n)
              /\ buf' = SubSeq(buf, n + 1, Len(buf))
              /\ UNCHANGED wbuf
              /\ IF n = Len(buf)
                 THEN /\ chainRet' = "ok"
                      /\ pc' = IF op = "stdin" THEN "exit0" ELSE AfterOp(FALSE, walking)
                      /\ UNCHANGED << exitCode, errMsg, active >>
                 ELSE /\ chainRet' = "err"
                      /\ Fail(Err("stdout", 0))
    /\ UNCHANGED << inputs, registry, op, idx, walk, walking, cur, fmtr, query,
                    commandChain, stage, tmp, spawned, nspawn, stdinRead, out0, pos,
                    disk, dispatched, opened, fileA, ret >>

\* formatWrite: file.Truncate(0)
TruncateFile ==
    /\ pc = "truncate"
    /\ \E ok \in BOOLEAN :
         IF ok
         THEN /\ disk' = [ disk EXCEPT ![cur] = Truncate(@, 0) ]
              /\ pc' = "seek"
              /\ UNCHANGED << exitCode, errMsg, active >>
         ELSE /\ Fail(Err("truncate", 0))
              /\ UNCHANGED disk
    /\ UNCHANGED << inputs, registry, op, idx, walk, walking, cur, fmtr, query, chainVars,
                    wbuf, pos, stdout, dispatched, opened, fileA, ret >>

\* formatWrite: file.Seek(0, os.SEEK_SET)
Seek ==
    /\ pc = "seek"
    /\ \E ok \in BOOLEAN :
         IF ok
         THEN /\ pos' = 0
              /\ pc' = "write"
              /\ UNCHANGED << exitCode, errMsg, active >>
         ELSE /\ Fail(Err("seek", 0))
              /\ UNCHANGED pos
    /\ UNCHANGED << inputs, registry, op, idx, walk, walking, cur, fmtr, query, chainVars,
                    wbuf, disk, stdout, dispatched, opened, fileA, ret >>

\* formatWrite: io.Copy(file, &buf) and the return; a write can fail short
WriteBack ==
    /\ pc = "write"
    /\ \E n \in 0..Len(wbuf) :
         /\ disk' = [ disk EXCEPT ![cur] = WriteAt(@, pos, SubSeq(wbuf, 1, n)) ]
         /\ pos' = pos + n
         /\ wbuf' = SubSeq(wbuf, n + 1, Len(wbuf))
         /\ IF n = Len(wbuf)
            THEN /\ ret' = [ path |-> cur, A |-> fileA, B |-> wbuf ]
                 /\ active' = FALSE
                 /\ pc' = AfterOp(FALSE, walking)
                 /\ UNCHANGED << exitCode, errMsg >>
            ELSE /\ Fail(Err("write", 0))
                 /\ UNCHANGED ret
    /\ UNCHANGED << inputs, registry, op, idx, walk, walking, cur, fmtr, query, chainVars,
                    stdout, dispatched, opened, fileA >>

\* the process is killed
Crash ==
    /\ pc \notin { "exit0", "exit1", "crashed" }
    /\ pc' = "crashed"
    /\ UNCHANGED << inputs, registry, op, idx, walk, walking, cur, fmtr, query, chainVars,
                    wbuf, pos, disk, stdout, exitCode, errMsg, dispatched, opened,
                    fileA, active, ret >>

Next ==
    \/ Main
    \/ FormatStdin
    \/ LoopNext
    \/ WalkStep
    \/ Open
    \/ Stage
    \/ ChainCopy
    \/ TruncateFile
    \/ Seek
    \/ WriteBack
    \/ Crash

Spec == Init /\ [][Next]_vars

----------------------------------------------------------------------------
(* The registry on its own: init() over any formatter list, then lookups *)

RegShapes ==
    { [ Commands        |-> << << "one" >> >>,
        EmacsMajorModes |-> << "m1" >>,
        Extensions      |-> << << ".", "a" >> >> ],
      [ Commands        |-> << << "two" >> >>,
        EmacsMajorModes |-> << "m2" >>,
        Extensions      |-> << << ".", "a" >>, << ".", "a", "a" >> >> ],
      [ Commands        |-> << << "three" >> >>,
        EmacsMajorModes |-> << "m1", "m2" >>,
        Extensions      |-> << << ".", "a", "a" >> >> ] }

RegChars == { "a", ".", "/" }

RegPaths == SeqsUpTo(RegChars, MaxPathLen)

RegModes == { "", "m1", "m2" }

InitReg ==
    /\ build = "metafmt.go"
    /\ args = <<>>
    /\ write = FALSE
    /\ emacs \in RegModes
    /\ stdin = <<>>
    /\ unreadable = {}
    /\ orig = [ f \in Files |-> <<>> ]
    /\ formatters \in SeqsUpTo(RegShapes, MaxFormatters)
    /\ extToFormatter = init(formatters).ext
    /\ emacsToFormatter = init(formatters).emacs
    /\ pc = "registry"
    /\ InitRun

\* formatterForPath(path)
LookupPath ==
    /\ pc = "registry"
    /\ \E path \in RegPaths :
         /\ query' = [ kind |-> "path", key |-> path ]
         /\ fmtr' = formatterForPath(extToFormatter, path)
    /\ UNCHANGED << inputs, registry, pc, op, idx, walk, walking, cur, chainVars, wbuf,
                    pos, disk, stdout, exitCode, errMsg, dispatched, opened, fileA,
                    active, ret >>

\* formatterForEmacs(), which reads the -emacs flag
LookupMode ==
    /\ pc = "registry"
    /\ query' = [ kind |-> "mode", key |-> emacs ]
    /\ fmtr' = formatterForEmacs(emacsToFormatter, emacs)
    /\ UNCHANGED << inputs, registry, pc, op, idx, walk, walking, cur, chainVars, wbuf,
                    pos, disk, stdout, exitCode, errMsg, dispatched, opened, fileA,
                    active, ret >>

NextReg == LookupPath \/ LookupMode

SpecReg == InitReg /\ [][NextReg]_vars

----------------------------------------------------------------------------
(* What the claims speak of, stated without the program's own lookups *)

\* formatter i of the list declares the key
Declares(list, i, kind, key) ==
    IF kind = "ext" THEN key \in Range(list[i].Extensions)
    ELSE key \in Range(list[i].EmacsMajorModes)

Declared(list, kind, key) == \E i \in 1..Len(list) : Declares(list, i, kind, key)

\* the last formatter in list order that declares the key, nil when none does
LastDeclaring(list, kind, key) ==
    IF ~Declared(list, kind, key) THEN nil
    ELSE CHOOSE i \in 1..Len(list) :
           /\ Declares(list, i, kind, key)
           /\ \A j \in (i + 1)..Len(list) : ~Declares(list, j, kind, key)

\* the substring of the path from its last "." to the end, empty without a "."
LastDotSuffix(path) ==
    IF \A i \in 1..Len(path) : path[i] # "." THEN <<>>
    ELSE SubSeq(path,
                CHOOSE i \in 1..Len(path) :
                  path[i] = "." /\ \A j \in (i + 1)..Len(path) : path[j] # ".",
                Len(path))

\* the formatter the static list assigns to a path
Resolve(path) == LastDeclaring(formatters, "ext", LastDotSuffix(path))

HasFormatter(path) == Resolve(path) # nil

\* the output of stage k of the chain on input x: ck(...c2(c1(x)))
RECURSIVE Compose(_, _, _)
Compose(chain, k, x) ==
    IF k = 0 THEN x ELSE Exec(chain[k], Compose(chain, k - 1, x))

\* what the chain of a path makes of content x
Result(path, x) ==
    Compose(formatters[Resolve(path)].Commands,
            Len(formatters[Resolve(path)].Commands), x)

\* the original input of the current chain
ChainInput == IF op = "stdin" THEN stdin ELSE fileA

\* the files a walk visits, in order
RECURSIVE WalkPlan(_, _)
WalkPlan(stack, unread) ==
    IF stack = <<>> THEN <<>>
    ELSE IF FileIsDir(Head(stack))
    THEN IF Name(Head(stack)) \in IgnoreDirs \/ Head(stack) \in unread
         THEN WalkPlan(Tail(stack), unread)
         ELSE WalkPlan(ReadDir(Head(stack)) \o Tail(stack), unread)
    ELSE << Head(stack) >> \o WalkPlan(Tail(stack), unread)

\* the files of a run in processing order
RECURSIVE Plan(_, _, _)
Plan(b, paths, unread) ==
    IF paths = <<>> THEN <<>>
    ELSE (IF IsDirDispatch(b, Head(paths))
          THEN WalkPlan(<< Head(paths) >>, unread)
          ELSE << Head(paths) >>) \o Plan(b, Tail(paths), unread)

\* the files of the run that have a formatter, in processing order
Targets == SelectSeq(Plan(build, RangeArgs(build, args), unreadable), HasFormatter)

\* the disk after the files of ps were formatted in place, one after the other
RECURSIVE ApplyAll(_, _)
ApplyAll(d, ps) ==
    IF ps = <<>> THEN d
    ELSE ApplyAll([ d EXCEPT ![Head(ps)] = Result(Head(ps), @) ], Tail(ps))

Front(s) == SubSeq(s, 1, Len(s) - 1)

----------------------------------------------------------------------------
(* Claims *)

\* C1: format-in-place is all-or-nothing with respect to the chain outcome.
\* When a stage of the chain failed, the file holds exactly the content A it
\* had when it was opened.  When formatWrite returned without error, the file
\* holds exactly B, the chain's result on A, with nothing left of A.
C1_AllOrNothing ==
    /\ (op = "write" /\ errMsg.kind \in { "notfound", "exit" })
         => (pc = "exit1" /\ disk[cur] = fileA /\ wbuf = <<>>)
    /\ (op = "write" /\ ret # NoRet /\ pc \in { "loop", "walk", "exit0" })
         => (ret.B = Result(ret.path, ret.A) /\ disk[ret.path] = ret.B)

\* a format-in-place returned with a result shorter than the old content
C1_Witness ==
    /\ op = "write"
    /\ pc = "exit0"
    /\ ret # NoRet
    /\ Len(ret.B) < Len(ret.A)
    /\ Len(ret.B) > 0
    /\ disk[ret.path] = ret.B

\* C2: while format-in-place is between opening the file and returning -
\* also when the process died or a file operation failed in between - the file
\* holds either the old content A or the chain's result B.
C2_OldOrNew ==
    active => disk[cur] \in { fileA, Result(cur, fileA) }

\* C3: stage 1 reads the original input, stage i > 1 reads exactly the
\* output of stage i - 1, the stages run in declared order, and a chain that
\* returned without error has handed its destination exactly cn(...c1(input)).
C3_Composition ==
    /\ Len(spawned) <= Len(commandChain)
    /\ \A k \in 1..Len(spawned) :
         /\ spawned[k].cmd = commandChain[k]
         /\ spawned[k].input = Compose(commandChain, k - 1, ChainInput)
         /\ (k < Len(spawned) => spawned[k].outcome = "ok")
    /\ chainRet = "ok" =>
         /\ Len(spawned) = Len(commandChain)
         /\ \A k \in 1..Len(spawned) : spawned[k].outcome = "ok"
         /\ (op # "write" =>
               stdout = out0 \o Compose(commandChain, Len(commandChain), ChainInput))
         /\ ((op = "write" /\ pc = "truncate") =>
               wbuf = Compose(commandChain, Len(commandChain), ChainInput))

\* a two-stage chain returned, and the other order of its stages would have
\* produced something else
C3_Witness ==
    /\ chainRet = "ok"
    /\ Len(spawned) = 2
    /\ op = "stdout"
    /\ stdout # out0 \o Exec(commandChain[1], Exec(commandChain[2], ChainInput))

\* C4: when stage k fails, no later stage is started, the chain returns the
\* error of stage k, and nothing reaches the destination: standard output is
\* as it was when the chain started, the in-place buffer is empty and the
\* file is as it was opened.
C4_ShortCircuit ==
    \A k \in 1..Len(spawned) :
      spawned[k].outcome # "ok" =>
        /\ k = Len(spawned)
        /\ chainRet = "err"
        /\ errMsg = Err(spawned[k].outcome, k)
        /\ stdout = out0
        /\ (op = "write" => wbuf = <<>> /\ disk[cur] = fileA)

\* stage 1 of a two-stage chain exited non-zero after writing output
C4_Witness ==
    /\ Len(commandChain) = 2
    /\ Len(spawned) = 1
    /\ spawned[1].outcome = "exit"
    /\ buf # <<>>
    /\ chainRet = "err"

C6_SkipWhenNotInstalled ==
    op \in { "write", "stdout" } =>
      \A k \in 1..Len(spawned) :
        spawned[k].outcome = "notfound" =>
          (disk[cur] = fileA /\ pc # "exit1" /\ exitCode = 0 /\ errMsg = NoErr)

\* the path formatFile is called on by the next step, if any
NextFile ==
    IF pc = "loop" /\ idx <= Len(RangeArgs(build, args))
                   /\ ~IsDirDispatch(build, RangeArgs(build, args)[idx])
    THEN << RangeArgs(build, args)[idx] >>
    ELSE IF pc = "walk" /\ walk # <<>> /\ ~FileIsDir(Head(walk))
    THEN << Head(walk) >>
    ELSE <<>>

\* C7: dispatch on a path without a registered extension is a silent no-op:
\* no file is opened, no process is started, nothing is written to standard
\* output or to a file, no error appears, the exit status stays, and the run
\* goes on with the next path.
C7_UnregisteredIsNoOp ==
    [][ (NextFile # <<>> /\ ~HasFormatter(NextFile[1]) /\ pc' # "crashed") =>
          /\ opened' = opened
          /\ nspawn' = nspawn
          /\ disk' = disk
          /\ stdout' = stdout
          /\ errMsg' = errMsg
          /\ exitCode' = exitCode
          /\ pc' \in { "loop", "walk" } ]_vars

\* an unregistered path was dispatched, and a later path was formatted
C7_Witness ==
    /\ pc = "exit0"
    /\ \E i \in 1..Len(dispatched) :
         /\ i < Len(dispatched)
         /\ dispatched[i].path = C_XYZ
         /\ dispatched[i].kind = "file"
    /\ Len(opened) = 1
    /\ nspawn = 1

\* the mode is empty or declared by no formatter
UnregisteredMode(mode) == mode = "" \/ ~Declared(formatters, "emacs", mode)

\* C8: format-standard-input with an empty or unregistered mode ends with
\* the unresolved-mode error and exit status 1; no process was started,
\* standard input was not read and nothing was written to standard output.
C8_UnresolvedMode ==
    (op = "stdin" /\ UnregisteredMode(emacs) /\ pc # "stdin") =>
      /\ pc \in { "exit1", "crashed" }
      /\ nspawn = 0
      /\ spawned = <<>>
      /\ ~stdinRead
      /\ stdout = <<>>
      /\ (pc = "exit1" => errMsg = Err("mode", 0) /\ exitCode = 1)

\* standard input was to be formatted under a mode no formatter declares
C8_Witness ==
    /\ op = "stdin"
    /\ emacs = "bogus-mode"
    /\ pc = "exit1"
    /\ errMsg = Err("mode", 0)

\* C9: a run over path arguments that reaches its end has dispatched every
\* argument, the first included, exactly once and in command-line order:
\* directories to the tree walk, everything else to formatFile.
C9_EveryArgDispatched ==
    (pc = "exit0" /\ op \in { "write", "stdout" }) =>
      dispatched = [ i \in 1..Len(args) |->
                       [ path |-> args[i],
                         kind |-> IF FileIsDir(args[i]) THEN "dir" ELSE "file" ] ]

\* C10: the maps hold exactly the declared keys, each bound to the last
\* formatter in list order that declares it; a lookup returns that formatter
\* for the path's substring from its last "." (for the mode name), and
\* not-found when no formatter declares it; lookups leave the maps as built.
C10_Registry ==
    /\ \A key \in DOMAIN extToFormatter : Declared(formatters, "ext", key)
    /\ \A key \in DOMAIN emacsToFormatter : Declared(formatters, "emacs", key)
    /\ \A i \in 1..Len(formatters) :
         /\ \A key \in Range(formatters[i].Extensions) :
              /\ key \in DOMAIN extToFormatter
              /\ extToFormatter[key] = LastDeclaring(formatters, "ext", key)
         /\ \A key \in Range(formatters[i].EmacsMajorModes) :
              /\ key \in DOMAIN emacsToFormatter
              /\ emacsToFormatter[key] = LastDeclaring(formatters, "emacs", key)
    /\ query.kind = "path" => fmtr = Resolve(query.key)
    /\ query.kind = "mode" => fmtr = LastDeclaring(formatters, "emacs", query.key)

\* an extension declared by two formatters was resolved to the later one
C10_Witness ==
    /\ Len(formatters) = 2
    /\ query.kind = "path"
    /\ Declares(formatters, 1, "ext", LastDotSuffix(query.key))
    /\ Declares(formatters, 2, "ext", LastDotSuffix(query.key))
    /\ formatters[1] # formatters[2]
    /\ fmtr = 2

====
